---- MODULE Spec2Model ----
(***************************************************************************)
(* Alerting system (src/alerting.py): alerts with a visibility rule, a     *)
(* per (user, alert) notification state machine and the reminder sweep.    *)
(*                                                                         *)
(* Time is an integer number of ticks.  A tick is the finest clock         *)
(* resolution (Python: one microsecond); TicksPerUnit ticks make the unit  *)
(* that datetime.replace(hour=0, minute=0, second=0) truncates away        *)
(* (Python: hour, minute and second, but NOT the microsecond), and         *)
(* UnitsPerDay units make one calendar day.  Every handler reads the       *)
(* clock once: the datetime.now() calls of one handler return `now`.       *)
(***************************************************************************)
EXTENDS Integers, FiniteSets, Sequences, TLC

\* ---------------------------------------------------------------- bounds
MaxTime == 6

TicksPerUnit == 2

UnitsPerDay == 2

Day == TicksPerUnit * UnitsPerDay

\* Optional[...] = None
None == -1

\* ------------------------------------------------------------ enumerations
ACTIVE == "active"

EXPIRED == "expired"

ARCHIVED == "archived"

AlertStatus == {ACTIVE, EXPIRED, ARCHIVED}

UNREAD == "unread"

READ == "read"

SNOOZED == "snoozed"

NotificationStatus == {UNREAD, READ, SNOOZED}

IN_APP == "in_app"

EMAIL == "email"

SMS == "sms"

DeliveryType == {IN_APP, EMAIL, SMS}

\* ------------------------------------------------------------- id spaces
\* Ids that requests name: the user of the directory, the ids an alert can get.
UserIds == {"user1"}

AlertIds == {1}

VARIABLES
    now,            \* the wall clock, datetime.now()
    users,          \* UserRepository.users: the set of known user ids
    teams,          \* UserRepository.teams: team id -> member_ids
    alerts,         \* AlertManager.alerts: alert id -> Alert
    user_states,    \* UserAlertStateManager.user_states: <<user, alert>> -> UserAlertState
    deliveries,     \* NotificationDelivery.deliver calls of the handler that just ran
    checks,         \* should_receive_reminder calls of the handler that just ran
    swept,          \* whether the handler that just ran was a sweep
    failed,         \* history: <<user, alert>> -> 1 or 2, the sweeps in a row (2: two or
                    \* more) whose delivery to the pair failed, with no action of the user since
    delivered_at,   \* history: <<user, alert>> -> time of the last successful delivery
    rule_in,        \* audience resolution alone: the rule resolved last
    target_users,   \* audience resolution alone: what it resolved to
    stage,          \* end-to-end scenario: how many of its steps the run has made
    threads,        \* concurrent sweeps: request thread -> its position in process_reminders
    sent,           \* concurrent sweeps: history of the deliver calls that returned True
    archived        \* history: the ids of the alerts that have been archived at some time

vars == <<now, users, teams, alerts, user_states, deliveries, checks, swept, failed,
          delivered_at, rule_in, target_users, stage, threads, sent, archived>>

\* What the handlers of the system never touch.
probes == <<rule_in, target_users, stage, threads, sent>>

aux == <<probes, archived>>

\* ------------------------------------------------------ visibility rules
OrganizationVisibility == [kind |-> "organization", ids |-> {}]

TeamVisibility(team_ids) == [kind |-> "team", ids |-> team_ids]

UserVisibility(user_ids) == [kind |-> "user", ids |-> user_ids]

\* Variant: each known team replaces the accumulator instead of updating it.
RECURSIVE TeamTargets_last(_, _, _)
TeamTargets_last(todo, tms, acc) ==
    IF todo = {} THEN acc
    ELSE LET team_id == CHOOSE t \in todo : TRUE
         IN  TeamTargets_last(todo \ {team_id}, tms,
                 IF team_id \in DOMAIN tms THEN tms[team_id] ELSE acc)

\* TeamVisibility.get_target_users: the loop over team_ids, updating the
\* accumulator with the members of each team the repository knows.
RECURSIVE TeamTargets(_, _, _)
TeamTargets(todo, tms, acc) ==
    IF todo = {} THEN acc
    ELSE LET team_id == CHOOSE t \in todo : TRUE
         IN  TeamTargets(todo \ {team_id}, tms,
                 IF team_id \in DOMAIN tms THEN acc \cup tms[team_id] ELSE acc)

get_all_user_ids(usrs) == usrs

get_target_users(rule, usrs, tms) ==
    CASE rule.kind = "organization" -> get_all_user_ids(usrs)
      [] rule.kind = "team"         -> TeamTargets(rule.ids, tms, {})
      [] rule.kind = "user"         -> rule.ids

\* ------------------------------------------------------------------ Alert
is_active(alert, t) ==
    IF alert.status # ACTIVE THEN FALSE
    ELSE IF t < alert.start_time THEN FALSE
    ELSE IF alert.expiry_time # None /\ t > alert.expiry_time THEN FALSE
    ELSE TRUE

\* Variant: the registry hands out every alert, live or not.
get_active_alerts_all(als, t) == DOMAIN als

get_active_alerts(als, t) == {a \in DOMAIN als : is_active(als[a], t)}

\* --------------------------------------------------------- UserAlertState
NewState == [status |-> UNREAD, last_reminder_sent |-> None,
             snoozed_until |-> None, read_at |-> None]

\* Variant: a read record is not excluded.
should_receive_reminder_ignoreread(s, alert, t) ==
    LET expired == s.snoozed_until # None /\ t > s.snoozed_until
        s1 == IF s.status = SNOOZED /\ expired
              THEN [s EXCEPT !.status = UNREAD, !.snoozed_until = None]
              ELSE s
    IN  IF s.status = SNOOZED /\ ~expired THEN [result |-> FALSE, state |-> s]
        ELSE IF s1.last_reminder_sent = None THEN [result |-> TRUE, state |-> s1]
        ELSE [result |-> (t - s1.last_reminder_sent) >= alert.reminder_frequency,
              state |-> s1]

\* Variant: only the first reminder is ever due.
should_receive_reminder_once(s, alert, t) ==
    LET expired == s.snoozed_until # None /\ t > s.snoozed_until
        s1 == IF s.status = SNOOZED /\ expired
              THEN [s EXCEPT !.status = UNREAD, !.snoozed_until = None]
              ELSE s
    IN  IF s.status = SNOOZED /\ ~expired THEN [result |-> FALSE, state |-> s]
        ELSE IF s1.status = READ THEN [result |-> FALSE, state |-> s1]
        ELSE [result |-> s1.last_reminder_sent = None, state |-> s1]

\* Variant: the throttle comparison is lost, an unread record is always eligible.
should_receive_reminder_nothrottle(s, alert, t) ==
    LET expired == s.snoozed_until # None /\ t > s.snoozed_until
        s1 == IF s.status = SNOOZED /\ expired
              THEN [s EXCEPT !.status = UNREAD, !.snoozed_until = None]
              ELSE s
    IN  IF s.status = SNOOZED /\ ~expired THEN [result |-> FALSE, state |-> s]
        ELSE IF s1.status = READ THEN [result |-> FALSE, state |-> s1]
        ELSE [result |-> TRUE, state |-> s1]

\* Variant: an expired snooze returns True at once, before the throttle.
should_receive_reminder_skip(s, alert, t) ==
    LET expired == s.snoozed_until # None /\ t > s.snoozed_until
        s1 == IF s.status = SNOOZED /\ expired
              THEN [s EXCEPT !.status = UNREAD, !.snoozed_until = None]
              ELSE s
    IN  IF s.status = SNOOZED /\ ~expired THEN [result |-> FALSE, state |-> s]
        ELSE IF s.status = SNOOZED THEN [result |-> TRUE, state |-> s1]
        ELSE IF s1.status = READ THEN [result |-> FALSE, state |-> s1]
        ELSE IF s1.last_reminder_sent = None THEN [result |-> TRUE, state |-> s1]
        ELSE [result |-> (t - s1.last_reminder_sent) >= alert.reminder_frequency,
              state |-> s1]

\* Variant: an expired snooze also forgets the last reminder.
should_receive_reminder_reset(s, alert, t) ==
    LET expired == s.snoozed_until # None /\ t > s.snoozed_until
        s1 == IF s.status = SNOOZED /\ expired
              THEN [s EXCEPT !.status = UNREAD, !.snoozed_until = None,
                             !.last_reminder_sent = None]
              ELSE s
    IN  IF s.status = SNOOZED /\ ~expired THEN [result |-> FALSE, state |-> s]
        ELSE IF s1.status = READ THEN [result |-> FALSE, state |-> s1]
        ELSE IF s1.last_reminder_sent = None THEN [result |-> TRUE, state |-> s1]
        ELSE [result |-> (t - s1.last_reminder_sent) >= alert.reminder_frequency,
              state |-> s1]

\* Variant: the snooze expires at snoozed_until already.
should_receive_reminder_atexpiry(s, alert, t) ==
    LET expired == s.snoozed_until # None /\ t >= s.snoozed_until
        s1 == IF s.status = SNOOZED /\ expired
              THEN [s EXCEPT !.status = UNREAD, !.snoozed_until = None]
              ELSE s
    IN  IF s.status = SNOOZED /\ ~expired THEN [result |-> FALSE, state |-> s]
        ELSE IF s1.status = READ THEN [result |-> FALSE, state |-> s1]
        ELSE IF s1.last_reminder_sent = None THEN [result |-> TRUE, state |-> s1]
        ELSE [result |-> (t - s1.last_reminder_sent) >= alert.reminder_frequency,
              state |-> s1]

\* Returns the result and the (possibly mutated) record.
should_receive_reminder(s, alert, t) ==
    LET expired == s.snoozed_until # None /\ t > s.snoozed_until
        s1 == IF s.status = SNOOZED /\ expired
              THEN [s EXCEPT !.status = UNREAD, !.snoozed_until = None]
              ELSE s
    IN  IF s.status = SNOOZED /\ ~expired THEN [result |-> FALSE, state |-> s]
        ELSE IF s1.status = READ THEN [result |-> FALSE, state |-> s1]
        ELSE IF s1.last_reminder_sent = None THEN [result |-> TRUE, state |-> s1]
        ELSE [result |-> (t - s1.last_reminder_sent) >= alert.reminder_frequency,
              state |-> s1]

mark_read(s, t) == [s EXCEPT !.status = READ, !.read_at = t]

\* tomorrow.replace(hour=0, minute=0, second=0): the day of t + one day, with
\* the hour/minute/second unit zeroed and the sub-unit ticks kept.
ReplaceHMS(t) == (t \div Day) * Day + (t % TicksPerUnit)

\* Variant: a snooze also restarts the throttle.
snooze_until_tomorrow_restart(s, t) ==
    LET tomorrow == t + Day
    IN  [s EXCEPT !.snoozed_until = ReplaceHMS(tomorrow), !.status = SNOOZED,
                  !.last_reminder_sent = None]

snooze_until_tomorrow(s, t) ==
    LET tomorrow == t + Day
    IN  [s EXCEPT !.snoozed_until = ReplaceHMS(tomorrow), !.status = SNOOZED]

\* -------------------------------------------------- UserAlertStateManager
\* Variant: every lookup hands out a fresh record.
get_state_fresh(st, user_id, alert_id) ==
    [p \in DOMAIN st \cup {<<user_id, alert_id>>} |->
        IF p = <<user_id, alert_id>> THEN NewState ELSE st[p]]

get_state(st, user_id, alert_id) ==
    IF <<user_id, alert_id>> \in DOMAIN st THEN st
    ELSE st @@ (<<user_id, alert_id>> :> NewState)

update_state(st, user_id, alert_id, s) ==
    IF <<user_id, alert_id>> \in DOMAIN st
    THEN [st EXCEPT ![<<user_id, alert_id>>] = s]
    ELSE st @@ (<<user_id, alert_id>> :> s)

\* ----------------------------------------------------- NotificationDelivery
deliver(alert, user_id) ==
    IF alert.delivery_type \in {IN_APP, EMAIL} THEN TRUE ELSE FALSE

\* -------------------------------------------------------- ReminderScheduler
\* Variant: the time of the attempt is recorded whether or not deliver succeeded.
ProcessUser_cooldown(acc, alert_id, alert, user_id, t) ==
    LET st0 == get_state(acc.states, user_id, alert_id)
        before == st0[<<user_id, alert_id>>]
        chk == should_receive_reminder(before, alert, t)
        st1 == [st0 EXCEPT ![<<user_id, alert_id>>] = chk.state]
        seen == acc.checks \cup {[alert |-> alert_id, user |-> user_id,
                                  before |-> before, result |-> chk.result]}
    IN  IF chk.result
        THEN [states |-> update_state(st1, user_id, alert_id,
                            [chk.state EXCEPT !.last_reminder_sent = t]),
              log |-> acc.log \cup {[alert |-> alert_id, user |-> user_id,
                                     ok |-> deliver(alert, user_id)]},
              checks |-> seen]
        ELSE [states |-> st1, log |-> acc.log, checks |-> seen]

\* Variant: the time of the check is recorded for a pair that is not eligible.
ProcessUser_stamp(acc, alert_id, alert, user_id, t) ==
    LET st0 == get_state(acc.states, user_id, alert_id)
        before == st0[<<user_id, alert_id>>]
        chk == should_receive_reminder(before, alert, t)
        st1 == [st0 EXCEPT ![<<user_id, alert_id>>] = chk.state]
        seen == acc.checks \cup {[alert |-> alert_id, user |-> user_id,
                                  before |-> before, result |-> chk.result]}
    IN  IF chk.result
        THEN LET ok == deliver(alert, user_id)
                 entry == [alert |-> alert_id, user |-> user_id, ok |-> ok]
             IN  IF ok
                 THEN [states |-> update_state(st1, user_id, alert_id,
                                   [chk.state EXCEPT !.last_reminder_sent = t]),
                       log |-> acc.log \cup {entry}, checks |-> seen]
                 ELSE [states |-> st1, log |-> acc.log \cup {entry}, checks |-> seen]
        ELSE [states |-> update_state(st1, user_id, alert_id,
                            [chk.state EXCEPT !.last_reminder_sent = t]),
              log |-> acc.log, checks |-> seen]

\* Variant: a successful delivery is not recorded.
ProcessUser_norecord(acc, alert_id, alert, user_id, t) ==
    LET st0 == get_state(acc.states, user_id, alert_id)
        before == st0[<<user_id, alert_id>>]
        chk == should_receive_reminder(before, alert, t)
        st1 == [st0 EXCEPT ![<<user_id, alert_id>>] = chk.state]
        seen == acc.checks \cup {[alert |-> alert_id, user |-> user_id,
                                  before |-> before, result |-> chk.result]}
    IN  IF chk.result
        THEN [states |-> st1,
              log |-> acc.log \cup {[alert |-> alert_id, user |-> user_id,
                                     ok |-> deliver(alert, user_id)]},
              checks |-> seen]
        ELSE [states |-> st1, log |-> acc.log, checks |-> seen]

\* One iteration of the inner loop: get_state, should_receive_reminder and,
\* when it says so, deliver and record.  `acc` is [states, log, checks]:
\* the store, the deliver calls made and the eligibility checks made so far.
ProcessUser(acc, alert_id, alert, user_id, t) ==
    LET st0 == get_state(acc.states, user_id, alert_id)
        before == st0[<<user_id, alert_id>>]
        chk == should_receive_reminder(before, alert, t)
        st1 == [st0 EXCEPT ![<<user_id, alert_id>>] = chk.state]
        seen == acc.checks \cup {[alert |-> alert_id, user |-> user_id,
                                  before |-> before, result |-> chk.result]}
    IN  IF chk.result
        THEN LET ok == deliver(alert, user_id)
                 entry == [alert |-> alert_id, user |-> user_id, ok |-> ok]
             IN  IF ok
                 THEN [states |-> update_state(st1, user_id, alert_id,
                                   [chk.state EXCEPT !.last_reminder_sent = t]),
                       log |-> acc.log \cup {entry}, checks |-> seen]
                 ELSE [states |-> st1, log |-> acc.log \cup {entry}, checks |-> seen]
        ELSE [states |-> st1, log |-> acc.log, checks |-> seen]

\* Variant: the sweep stops at the first delivery that fails.
RECURSIVE ProcessUsers_stop(_, _, _, _, _)
ProcessUsers_stop(acc, alert_id, alert, todo, t) ==
    IF todo = {} \/ \E e \in acc.log : ~e.ok THEN acc
    ELSE LET user_id == CHOOSE u \in todo : TRUE
         IN  ProcessUsers_stop(ProcessUser(acc, alert_id, alert, user_id, t),
                               alert_id, alert, todo \ {user_id}, t)

RECURSIVE ProcessUsers(_, _, _, _, _)
ProcessUsers(acc, alert_id, alert, todo, t) ==
    IF todo = {} THEN acc
    ELSE LET user_id == CHOOSE u \in todo : TRUE
         IN  ProcessUsers(ProcessUser(acc, alert_id, alert, user_id, t),
                          alert_id, alert, todo \ {user_id}, t)

RECURSIVE ProcessAlerts(_, _, _, _, _, _)
ProcessAlerts(acc, als, todo, usrs, tms, t) ==
    IF todo = {} THEN acc
    ELSE LET alert_id == CHOOSE a \in todo : TRUE
             alert == als[alert_id]
             rest == todo \ {alert_id}
         IN  IF ~alert.reminders_enabled
             THEN ProcessAlerts(acc, als, rest, usrs, tms, t)
             ELSE ProcessAlerts(
                      ProcessUsers(acc, alert_id, alert,
                          get_target_users(alert.visibility_config, usrs, tms), t),
                      als, rest, usrs, tms, t)

process_reminders(st, als, usrs, tms, t) ==
    ProcessAlerts([states |-> st, log |-> {}, checks |-> {}], als,
                  get_active_alerts(als, t), usrs, tms, t)

\* ------------------------------------------------------------ input sets
Rules == {OrganizationVisibility, TeamVisibility({"team1", "team9"}),
          UserVisibility({"user1"})}

StartTimes == {0, 3}

ExpiryTimes == {None, 4}

Frequencies == {2, 4}

NoRule == [kind |-> "none", ids |-> {}]

\* The request threads that may run POST /system/process-reminders, and all of
\* them outside the handler.
ThreadIds == {"t1", "t2"}

NoThreads == [p \in ThreadIds |-> [pc |-> "idle", todo |-> {}]]

\* ------------------------------------------------------------------- Init
\* UserRepository.__init__ scaled to one user in one of two teams; the
\* registries AlertManager and UserAlertStateManager start empty.
Init ==
    /\ now = 0
    /\ users = {"user1"}
    /\ teams = ("team1" :> {"user1"}) @@ ("team2" :> {})
    /\ alerts = <<>>
    /\ user_states = <<>>
    /\ deliveries = {}
    /\ checks = {}
    /\ swept = FALSE
    /\ failed = <<>>
    /\ delivered_at = <<>>
    /\ rule_in = NoRule
    /\ target_users = {}
    /\ stage = "off"
    /\ threads = NoThreads
    /\ sent = {}
    /\ archived = {}

\* ---------------------------------------------------------------- handlers
\* The history of failed deliveries: after an action of the user of pair p, and
\* after a sweep that logged `log`.
Acted(old, p) == [q \in DOMAIN old \ {p} |-> old[q]]

Failed(old, log) ==
    LET miss == {<<e.user, e.alert>> : e \in {x \in log : ~x.ok}}
    IN  [p \in miss |-> IF p \in DOMAIN old THEN 2 ELSE 1]

\* The history of successful deliveries after a sweep that logged `log` at t.
Delivered(old, log, t) ==
    LET hit == {<<e.user, e.alert>> : e \in {x \in log : x.ok}}
    IN  [p \in hit \cup DOMAIN old |-> IF p \in hit THEN t ELSE old[p]]

\* A handler that is no sweep checks nothing and delivers nothing.
Quiet == deliveries' = {} /\ checks' = {} /\ swept' = FALSE

\* Time passes between handlers.
Advance(limit) ==
    /\ now < limit
    /\ now' = now + 1
    /\ Quiet
    /\ UNCHANGED <<users, teams, alerts, user_states, failed, delivered_at>>

\* AlertManager.create_alert
create_alert(vis, start, expiry, freq, dtype) ==
    LET id == Cardinality(DOMAIN alerts) + 1
    IN  /\ id \in AlertIds
        /\ alerts' = alerts @@ (id :>
               [visibility_config |-> vis, start_time |-> start,
                expiry_time |-> expiry, reminder_frequency |-> freq,
                delivery_type |-> dtype, status |-> ACTIVE,
                reminders_enabled |-> TRUE])
        /\ Quiet
        /\ UNCHANGED <<now, users, teams, user_states, failed, delivered_at>>

\* AlertManager.update_alert: setattr of one keyword argument.
update_alert(id, key, value) ==
    /\ id \in DOMAIN alerts
    /\ alerts' = [alerts EXCEPT ![id] = [alerts[id] EXCEPT ![key] = value]]
    /\ Quiet
    /\ UNCHANGED <<now, users, teams, user_states, failed, delivered_at>>

\* AlertManager.archive_alert
archive_alert(id) ==
    /\ id \in DOMAIN alerts
    /\ alerts' = [alerts EXCEPT ![id].status = ARCHIVED]
    /\ Quiet
    /\ UNCHANGED <<now, users, teams, user_states, failed, delivered_at>>

\* AlertManager.get_alerts_for_user: the active alerts whose audience holds user_id.
get_alerts_for_user(als, usrs, tms, user_id, t) ==
    {a \in get_active_alerts(als, t) :
        user_id \in get_target_users(als[a].visibility_config, usrs, tms)}

RECURSIVE GetStates(_, _, _)
GetStates(st, user_id, todo) ==
    IF todo = {} THEN st
    ELSE LET a == CHOOSE x \in todo : TRUE
         IN  GetStates(get_state(st, user_id, a), user_id, todo \ {a})

\* GET /users/<user_id>/alerts: looks up (and so creates) the state of every
\* alert shown to the user.
get_user_alerts(user_id) ==
    /\ user_states' = GetStates(user_states, user_id,
                          get_alerts_for_user(alerts, users, teams, user_id, now))
    /\ Quiet
    /\ UNCHANGED <<now, users, teams, alerts, failed, delivered_at>>

\* AlertingSystem.snooze_alert
snooze_alert(user_id, alert_id) ==
    LET st == get_state(user_states, user_id, alert_id)
        state == snooze_until_tomorrow(st[<<user_id, alert_id>>], now)
    IN  /\ user_states' = update_state(st, user_id, alert_id, state)
        /\ Quiet
        /\ failed' = Acted(failed, <<user_id, alert_id>>)
        /\ UNCHANGED <<now, users, teams, alerts, delivered_at>>

\* AlertingSystem.mark_alert_read
mark_alert_read(user_id, alert_id) ==
    LET st == get_state(user_states, user_id, alert_id)
        state == mark_read(st[<<user_id, alert_id>>], now)
    IN  /\ user_states' = update_state(st, user_id, alert_id, state)
        /\ Quiet
        /\ failed' = Acted(failed, <<user_id, alert_id>>)
        /\ UNCHANGED <<now, users, teams, alerts, delivered_at>>

\* AlertingSystem.process_reminders: one sweep.
sweep ==
    LET out == process_reminders(user_states, alerts, users, teams, now)
    IN  /\ user_states' = out.states
        /\ deliveries' = out.log
        /\ checks' = out.checks
        /\ swept' = TRUE
        /\ failed' = Failed(failed, out.log)
        /\ delivered_at' = Delivered(delivered_at, out.log, now)
        /\ UNCHANGED <<now, users, teams, alerts>>

\* ------------------------------------------------------ the specification
Tick == Advance(MaxTime) /\ UNCHANGED aux

CreateAlert ==
    \E vis \in Rules, start \in StartTimes, expiry \in ExpiryTimes,
       freq \in Frequencies, dtype \in DeliveryType :
        create_alert(vis, start, expiry, freq, dtype) /\ UNCHANGED aux

\* AlertManager.update_alert sets any attribute it is given.  The model draws
\* status, reminders_enabled and expiry_time (what PUT /admin/alerts/<id>
\* passes of the attributes a sweep reads) and delivery_type (a direct call).
UpdateStatus ==
    \E id \in AlertIds, s \in AlertStatus :
        /\ update_alert(id, "status", s)
        /\ archived' = IF s = ARCHIVED THEN archived \cup {id} ELSE archived
        /\ UNCHANGED probes

UpdateRemindersEnabled ==
    \E id \in AlertIds, b \in BOOLEAN :
        update_alert(id, "reminders_enabled", b) /\ UNCHANGED aux

UpdateExpiryTime ==
    \E id \in AlertIds, e \in ExpiryTimes \ {None} :
        update_alert(id, "expiry_time", e) /\ UNCHANGED aux

UpdateDeliveryType ==
    \E id \in AlertIds, dtype \in DeliveryType :
        update_alert(id, "delivery_type", dtype) /\ UNCHANGED aux

ArchiveAlert ==
    \E id \in AlertIds :
        /\ archive_alert(id)
        /\ archived' = archived \cup {id}
        /\ UNCHANGED probes

GetUserAlerts == \E user_id \in UserIds : get_user_alerts(user_id) /\ UNCHANGED aux

SnoozeAlert ==
    \E user_id \in UserIds, alert_id \in AlertIds :
        snooze_alert(user_id, alert_id) /\ UNCHANGED aux

MarkAlertRead ==
    \E user_id \in UserIds, alert_id \in AlertIds :
        mark_alert_read(user_id, alert_id) /\ UNCHANGED aux

ProcessReminders == sweep /\ UNCHANGED aux

Next ==
    \/ Tick
    \/ CreateAlert
    \/ UpdateStatus
    \/ UpdateRemindersEnabled
    \/ UpdateExpiryTime
    \/ UpdateDeliveryType
    \/ ArchiveAlert
    \/ GetUserAlerts
    \/ SnoozeAlert
    \/ MarkAlertRead
    \/ ProcessReminders

Spec == Init /\ [][Next]_vars

\* ------------------------------------------- audience resolution on its own
\* get_target_users applied to every rule over every small directory.
DirUserIds == {"user1", "user2"}

DirTeamIds == {"team1", "team2"}

Directories ==
    {[users |-> u, teams |-> t] :
        u \in SUBSET DirUserIds,
        t \in UNION {[T -> SUBSET DirUserIds] : T \in SUBSET DirTeamIds}}

ResolveRules ==
    {OrganizationVisibility}
    \cup {TeamVisibility(T) : T \in SUBSET (DirTeamIds \cup {"team9"})}
    \cup {UserVisibility(U) : U \in SUBSET {"user1", "ghost"}}

InitResolve ==
    /\ now = 0
    /\ \E d \in Directories : users = d.users /\ teams = d.teams
    /\ alerts = <<>>
    /\ user_states = <<>>
    /\ deliveries = {}
    /\ checks = {}
    /\ swept = FALSE
    /\ failed = <<>>
    /\ delivered_at = <<>>
    /\ rule_in = NoRule
    /\ target_users = {}
    /\ stage = "off"
    /\ threads = NoThreads
    /\ sent = {}
    /\ archived = {}

Resolve ==
    \E rule \in ResolveRules :
        /\ rule_in' = rule
        /\ target_users' = get_target_users(rule, users, teams)
        /\ UNCHANGED <<now, users, teams, alerts, user_states, deliveries, checks,
                       swept, failed, delivered_at, stage, threads, sent, archived>>

NextResolve == Resolve

SpecResolve == InitResolve /\ [][NextResolve]_vars

\* ------------------------------------------------- the end-to-end scenario
\* Alert A: organization-wide, reminder every two hours, from T0 = 0 on, no
\* expiry, a delivery type with a channel; the directory holds u1 and u2.
\* An hour is the unit replace() zeroes, so a tick is half an hour.
Hour == TicksPerUnit

E2EUsers == {"u1", "u2"}

E2EEnd == 5 * Hour

InitE2E ==
    /\ now = 0
    /\ users = E2EUsers
    /\ teams = <<>>
    /\ \E dtype \in {IN_APP, EMAIL} :
          alerts = (1 :> [visibility_config |-> OrganizationVisibility,
                          start_time |-> 0, expiry_time |-> None,
                          reminder_frequency |-> 2 * Hour, delivery_type |-> dtype,
                          status |-> ACTIVE, reminders_enabled |-> TRUE])
    /\ user_states = <<>>
    /\ deliveries = {}
    /\ checks = {}
    /\ swept = FALSE
    /\ failed = <<>>
    /\ delivered_at = <<>>
    /\ rule_in = NoRule
    /\ target_users = {}
    /\ stage = "start"
    /\ threads = NoThreads
    /\ sent = {}
    /\ archived = {}

\* `stage` follows the scenario: sweeps at T0, T0+1h and T0+3h, mark-read by
\* u1 at T0+3h30m, a sweep at T0+5h.  Any other sweep or mark-read leaves it.
AfterSweep(st, t) ==
    IF st = "start" /\ t = 0 THEN "swept0"
    ELSE IF st = "swept0" /\ t = Hour THEN "swept1"
    ELSE IF st = "swept1" /\ t = 3 * Hour THEN "swept3"
    ELSE IF st = "read" /\ t = 5 * Hour THEN "swept5"
    ELSE "off"

AfterRead(st, t, user_id) ==
    IF st = "swept3" /\ t = 3 * Hour + 1 /\ user_id = "u1" THEN "read" ELSE "off"

TickE2E == Advance(E2EEnd) /\ UNCHANGED aux

SweepE2E ==
    /\ sweep
    /\ stage' = AfterSweep(stage, now)
    /\ UNCHANGED <<rule_in, target_users, threads, sent, archived>>

MarkReadE2E ==
    \E user_id \in E2EUsers :
        /\ mark_alert_read(user_id, 1)
        /\ stage' = AfterRead(stage, now, user_id)
        /\ UNCHANGED <<rule_in, target_users, threads, sent, archived>>

NextE2E ==
    \/ TickE2E
    \/ SweepE2E
    \/ MarkReadE2E

SpecE2E == InitE2E /\ [][NextE2E]_vars

\* ------------------------------------------------- sweeps that keep coming
\* One alert that stays live with reminders enabled, organization-wide, and
\* the user of the directory; the timer keeps triggering sweeps and the clock
\* keeps running (to the end of the modelled time).
InitLive ==
    /\ now = 0
    /\ users = {"user1"}
    /\ teams = ("team1" :> {"user1"}) @@ ("team2" :> {})
    /\ \E freq \in Frequencies, dtype \in DeliveryType :
          alerts = (1 :> [visibility_config |-> OrganizationVisibility,
                          start_time |-> 0, expiry_time |-> None,
                          reminder_frequency |-> freq, delivery_type |-> dtype,
                          status |-> ACTIVE, reminders_enabled |-> TRUE])
    /\ user_states = <<>>
    /\ deliveries = {}
    /\ checks = {}
    /\ swept = FALSE
    /\ failed = <<>>
    /\ delivered_at = <<>>
    /\ rule_in = NoRule
    /\ target_users = {}
    /\ stage = "off"
    /\ threads = NoThreads
    /\ sent = {}
    /\ archived = {}

NextLive ==
    \/ Tick
    \/ SnoozeAlert
    \/ MarkAlertRead
    \/ ProcessReminders

SpecLive ==
    /\ InitLive
    /\ [][NextLive]_vars
    /\ WF_vars(Tick)
    /\ WF_vars(ProcessReminders)

\* ------------------------------------------------------ overlapping sweeps
\* app.run serves each request on a thread of its own and process_reminders
\* takes no lock, so two POST /system/process-reminders run side by side.  A
\* thread goes through the loop body one call at a time: should_receive_reminder
\* ("check"), deliver ("deliver"), the assignment of last_reminder_sent
\* ("record").  The UserAlertState is one object that both threads hold.

\* The (user, alert) pairs a sweep that starts now goes through.
SweepWork ==
    {pr \in UserIds \X AlertIds :
        /\ pr[2] \in get_active_alerts(alerts, now)
        /\ alerts[pr[2]].reminders_enabled
        /\ pr[1] \in get_target_users(alerts[pr[2]].visibility_config, users, teams)}

\* The pair a thread is at, and the thread once it is through with that pair.
AtPair(p) == CHOOSE pr \in threads[p].todo : TRUE

Done(p) ==
    LET rest == threads[p].todo \ {AtPair(p)}
    IN  [threads EXCEPT ![p] = [pc |-> IF rest = {} THEN "idle" ELSE "check",
                                todo |-> rest]]

Goto(p, pc) == [threads EXCEPT ![p].pc = pc]

BeginSweep(p) ==
    /\ threads[p].pc = "idle"
    /\ SweepWork # {}
    /\ threads' = [threads EXCEPT ![p] = [pc |-> "check", todo |-> SweepWork]]
    /\ UNCHANGED <<now, users, teams, alerts, user_states, deliveries, checks,
                   swept, failed, delivered_at, rule_in, target_users, stage, sent, archived>>

CheckSweep(p) ==
    /\ threads[p].pc = "check"
    /\ LET pr == AtPair(p)
           st0 == get_state(user_states, pr[1], pr[2])
           chk == should_receive_reminder(st0[pr], alerts[pr[2]], now)
       IN  /\ user_states' = [st0 EXCEPT ![pr] = chk.state]
           /\ threads' = IF chk.result THEN Goto(p, "deliver") ELSE Done(p)
    /\ UNCHANGED <<now, users, teams, alerts, deliveries, checks, swept, failed,
                   delivered_at, rule_in, target_users, stage, sent, archived>>

DeliverSweep(p) ==
    /\ threads[p].pc = "deliver"
    /\ LET pr == AtPair(p)
           ok == deliver(alerts[pr[2]], pr[1])
       IN  /\ sent' = IF ok THEN sent \cup {[user |-> pr[1], alert |-> pr[2],
                                             at |-> now, by |-> p]}
                       ELSE sent
           /\ threads' = IF ok THEN Goto(p, "record") ELSE Done(p)
    /\ UNCHANGED <<now, users, teams, alerts, user_states, deliveries, checks,
                   swept, failed, delivered_at, rule_in, target_users, stage, archived>>

RecordSweep(p) ==
    /\ threads[p].pc = "record"
    /\ user_states' = [user_states EXCEPT ![AtPair(p)].last_reminder_sent = now]
    /\ threads' = Done(p)
    /\ UNCHANGED <<now, users, teams, alerts, deliveries, checks, swept, failed,
                   delivered_at, rule_in, target_users, stage, sent, archived>>

Begin == \E p \in ThreadIds : BeginSweep(p)

Check == \E p \in ThreadIds : CheckSweep(p)

Deliver == \E p \in ThreadIds : DeliverSweep(p)

Record == \E p \in ThreadIds : RecordSweep(p)

NextRace ==
    \/ Tick
    \/ Begin
    \/ Check
    \/ Deliver
    \/ Record

SpecRace == InitLive /\ [][NextRace]_vars

\* ------------------------------------------- should_receive_reminder alone
\* UserAlertState is a dataclass: any combination of field values can be
\* constructed, those no handler produces included.  The method is called on
\* each such record of one pair, at any time.
RecordTimes == {None, 0, 3}

Records ==
    [status : NotificationStatus, last_reminder_sent : RecordTimes,
     snoozed_until : RecordTimes, read_at : RecordTimes]

InitRecord ==
    /\ now = 0
    /\ users = {"user1"}
    /\ teams = ("team1" :> {"user1"}) @@ ("team2" :> {})
    /\ \E freq \in Frequencies :
          alerts = (1 :> [visibility_config |-> OrganizationVisibility,
                          start_time |-> 0, expiry_time |-> None,
                          reminder_frequency |-> freq, delivery_type |-> IN_APP,
                          status |-> ACTIVE, reminders_enabled |-> TRUE])
    /\ \E s \in Records : user_states = (<<"user1", 1>> :> s)
    /\ deliveries = {}
    /\ checks = {}
    /\ swept = FALSE
    /\ failed = <<>>
    /\ delivered_at = <<>>
    /\ rule_in = NoRule
    /\ target_users = {}
    /\ stage = "off"
    /\ threads = NoThreads
    /\ sent = {}
    /\ archived = {}

\* user_state.should_receive_reminder(alert), called on the stored record.
ShouldRemind ==
    \E p \in DOMAIN user_states :
        LET chk == should_receive_reminder(user_states[p], alerts[p[2]], now)
        IN  /\ user_states' = [user_states EXCEPT ![p] = chk.state]
            /\ checks' = {[alert |-> p[2], user |-> p[1],
                           before |-> user_states[p], result |-> chk.result]}
            /\ deliveries' = {}
            /\ swept' = FALSE
            /\ UNCHANGED <<now, users, teams, alerts, failed, delivered_at, aux>>

NextRecord ==
    \/ Tick
    \/ ShouldRemind

SpecRecord == InitRecord /\ [][NextRecord]_vars

\* ------------------------------------------------- two alerts, two users
\* Two organization-wide alerts of any delivery types (sms has no channel, so
\* its deliveries fail) and two users: four pairs go through each sweep.
IsoAlertIds == {1, 2}

IsoAlert(dtype) ==
    [visibility_config |-> OrganizationVisibility, start_time |-> 0,
     expiry_time |-> None, reminder_frequency |-> 2 * Hour, delivery_type |-> dtype,
     status |-> ACTIVE, reminders_enabled |-> TRUE]

InitIso ==
    /\ now = 0
    /\ users = E2EUsers
    /\ teams = ("team1" :> {"u1"}) @@ ("team2" :> {"u2"})
    /\ \E d1, d2 \in DeliveryType : alerts = (1 :> IsoAlert(d1)) @@ (2 :> IsoAlert(d2))
    /\ user_states = <<>>
    /\ deliveries = {}
    /\ checks = {}
    /\ swept = FALSE
    /\ failed = <<>>
    /\ delivered_at = <<>>
    /\ rule_in = NoRule
    /\ target_users = {}
    /\ stage = "off"
    /\ threads = NoThreads
    /\ sent = {}
    /\ archived = {}

\* The run ends after one reminder frequency; u1 acts, u2 never does.
IsoEnd == 2 * Hour

TickIso == Advance(IsoEnd) /\ UNCHANGED aux

SnoozeIso ==
    \E alert_id \in IsoAlertIds : snooze_alert("u1", alert_id) /\ UNCHANGED aux

MarkReadIso ==
    \E alert_id \in IsoAlertIds : mark_alert_read("u1", alert_id) /\ UNCHANGED aux

NextIso ==
    \/ TickIso
    \/ ProcessReminders
    \/ SnoozeIso
    \/ MarkReadIso

SpecIso == InitIso /\ [][NextIso]_vars

\* --------------------------------------- recipient actions during a sweep
\* One request thread is inside process_reminders while the requests of the
\* recipient (snooze, mark-read) are served on threads of their own; nothing
\* orders a recipient's handler and the calls of the loop body.  Each
\* recipient handler is taken as one step between two calls of the sweep.
SweepBegins == BeginSweep("t1")

SweepChecks == CheckSweep("t1")

SweepDelivers == DeliverSweep("t1")

SweepRecords == RecordSweep("t1")

NextActRace ==
    \/ Tick
    \/ SweepBegins
    \/ SweepChecks
    \/ SweepDelivers
    \/ SweepRecords
    \/ SnoozeAlert
    \/ MarkAlertRead

SpecActRace == InitLive /\ [][NextActRace]_vars

\* ================================================================ claims
\* The record of a pair and of the pair a log entry names.
PairOf(e) == <<e.user, e.alert>>

StateOf(e) == user_states[PairOf(e)]

\* The check of the last sweep for the pair of delivery e.
CheckOf(e) == CHOOSE c \in checks : PairOf(c) = PairOf(e)

Throttled(last, freq, t) == last # None /\ t - last < freq

\* The first midnight strictly after t.
NextMidnight(t) == ((t \div Day) + 1) * Day

\* C1: once mark-read has been applied to a pair (read_at is set by mark_read
\* alone and never cleared), the status of the pair is read in every later state.
C1_ReadIsSticky ==
    \A p \in DOMAIN user_states :
        user_states[p].read_at # None => user_states[p].status = READ

\* C2: no sweep invokes delivery for a pair to which mark-read has been applied.
C2_NoDeliveryAfterRead ==
    \A e \in deliveries : StateOf(e).read_at = None

\* C3: with a positive reminder frequency, should_remind is false right after a
\* successful delivery, and a successful delivery to a pair comes at least the
\* reminder frequency after the previous successful delivery to that pair.
C3_Throttling ==
    /\ [](\A e \in deliveries :
            (e.ok /\ alerts[e.alert].reminder_frequency > 0)
            => ~should_receive_reminder(StateOf(e), alerts[e.alert], now).result)
    /\ [][\A e \in deliveries' :
            (e.ok /\ alerts[e.alert].reminder_frequency > 0
                  /\ PairOf(e) \in DOMAIN delivered_at)
            => now' - delivered_at[PairOf(e)] >= alerts[e.alert].reminder_frequency]_vars

\* C3 witness: a pair that had a reminder before is delivered to again.
C3_Witness ==
    \E e \in deliveries :
        /\ e.ok
        /\ alerts[e.alert].reminder_frequency > 0
        /\ CheckOf(e).before.last_reminder_sent # None
        /\ StateOf(e).last_reminder_sent = now

\* C4: a snooze at time t sets status snoozed and snoozed-until to exactly the
\* first midnight strictly after t, and a should_remind check before that
\* midnight returns false and leaves the record as it is.
C4_SnoozeUntilNextMidnight ==
    /\ [][\A p \in DOMAIN user_states' :
            (/\ user_states'[p].status = SNOOZED
             /\ ~swept'
             /\ (p \notin DOMAIN user_states \/ user_states[p] # user_states'[p]))
            => user_states'[p].snoozed_until = NextMidnight(now)]_vars
    /\ [](\A c \in checks :
            (c.before.status = SNOOZED /\ c.before.snoozed_until # None
                /\ now < c.before.snoozed_until)
            => (~c.result /\ user_states[PairOf(c)] = c.before))

\* C5 as stated: a check of a snoozed, never read pair after snoozed-until
\* returns true and clears snoozed-until, whatever the last reminder and frequency.
C5_ExpiredSnoozeAlwaysEligible ==
    \A c \in checks :
        (/\ c.before.status = SNOOZED
         /\ c.before.read_at = None
         /\ c.before.snoozed_until # None
         /\ now > c.before.snoozed_until)
        => (c.result /\ user_states[PairOf(c)].snoozed_until = None)

\* C5 amended: a check of a snoozed, never read pair after snoozed-until clears
\* snoozed-until, sets status unread, and returns true exactly when the last
\* reminder is unset or at least the reminder frequency old.
C5_ExpiredSnoozeThenThrottle ==
    \A c \in checks :
        (/\ c.before.status = SNOOZED
         /\ c.before.read_at = None
         /\ c.before.snoozed_until # None
         /\ now > c.before.snoozed_until)
        => /\ user_states[PairOf(c)].snoozed_until = None
           /\ user_states[PairOf(c)].status = UNREAD
           /\ c.result <=> ~Throttled(c.before.last_reminder_sent,
                                      alerts[c.alert].reminder_frequency, now)

\* C5 witness: an expired snooze is cleared by a check that returns false.
C5_Witness ==
    \E c \in checks :
        /\ c.before.status = SNOOZED
        /\ c.before.read_at = None
        /\ c.before.snoozed_until # None
        /\ now > c.before.snoozed_until
        /\ ~c.result
        /\ user_states[PairOf(c)].snoozed_until = None

\* C6 as stated: after a failed delivery every field of the pair's record
\* equals its value before the sweep, an expired snooze included.
C6_FailureLeavesRecord ==
    \A e \in deliveries : ~e.ok => StateOf(e) = CheckOf(e).before

\* C6 amended: after a failed delivery last-reminder-sent and read-at equal
\* their values before the sweep; status and snoozed-until equal them too,
\* unless the pair entered the sweep snoozed with an expired snooze, and then
\* status is unread and snoozed-until is unset.
C6_FailureLeavesRecordButExpiry ==
    \A e \in deliveries :
        ~e.ok =>
            LET b == CheckOf(e).before
            IN  /\ StateOf(e).last_reminder_sent = b.last_reminder_sent
                /\ StateOf(e).read_at = b.read_at
                /\ IF b.status = SNOOZED
                   THEN /\ b.snoozed_until # None /\ now > b.snoozed_until
                        /\ StateOf(e).status = UNREAD
                        /\ StateOf(e).snoozed_until = None
                   ELSE /\ StateOf(e).status = b.status
                        /\ StateOf(e).snoozed_until = b.snoozed_until

\* C6 witness: a delivery fails for a pair that entered the sweep snoozed and
\* had a reminder before.
C6_Witness ==
    \E e \in deliveries :
        /\ ~e.ok
        /\ CheckOf(e).before.status = SNOOZED
        /\ CheckOf(e).before.last_reminder_sent # None

\* C7: when delivery to a pair failed in the last sweep and the user has not
\* acted since, the next sweep invokes delivery for the pair again, if the alert
\* is then live with reminders enabled and the user in its audience.
C7_FailureStartsNoCooldown ==
    [][\A p \in DOMAIN failed :
        (/\ swept'
         /\ is_active(alerts[p[2]], now)
         /\ alerts[p[2]].reminders_enabled
         /\ p[1] \in get_target_users(alerts[p[2]].visibility_config, users, teams))
        => \E e \in deliveries' : PairOf(e) = p]_vars

\* C7 witness: delivery to a pair has failed in two sweeps in a row, the
\* second sweep at a later time than the first.
C7_Witness ==
    \E p \in DOMAIN failed :
        /\ failed[p] = 2
        /\ swept
        /\ now > 0

\* The claim's definition of a live alert.
IsLive(alert, t) ==
    /\ alert.status = ACTIVE
    /\ t >= alert.start_time
    /\ (alert.expiry_time = None \/ t <= alert.expiry_time)

Swept(a) == IsLive(alerts[a], now) /\ alerts[a].reminders_enabled

\* C8: is_active is the claim's liveness, and a sweep invokes no delivery and
\* no check for an alert that is not live or has reminders disabled, and
\* neither creates nor changes a record of such an alert.
C8_NotLiveNotSwept ==
    /\ [](\A a \in DOMAIN alerts : is_active(alerts[a], now) <=> IsLive(alerts[a], now))
    /\ [](\A e \in deliveries : Swept(e.alert))
    /\ [](\A c \in checks : Swept(c.alert))
    /\ [][swept' =>
            \A p \in DOMAIN user_states' :
                (p[2] \notin DOMAIN alerts \/ ~Swept(p[2]))
                => (p \in DOMAIN user_states /\ user_states'[p] = user_states[p])]_vars

\* C8 witness: a sweep has run past an alert that is not live or has reminders
\* disabled, whose record shows an unread user with no reminder yet.
C8_Witness ==
    /\ swept
    /\ \E p \in DOMAIN user_states :
        /\ p[2] \in DOMAIN alerts
        /\ ~Swept(p[2])
        /\ user_states[p].status = UNREAD
        /\ user_states[p].last_reminder_sent = None

\* The claim's reference for audience resolution.
Audience(rule, usrs, tms) ==
    IF rule.kind = "organization" THEN usrs
    ELSE IF rule.kind = "team"
         THEN UNION {tms[team_id] : team_id \in rule.ids \cap DOMAIN tms}
         ELSE rule.ids

\* C9: an organization rule resolves to all user ids of the directory, a team
\* rule to the union of the members of its teams that exist, a user rule to
\* its own ids, known or not; resolving changes neither directory nor records.
C9_AudienceResolution ==
    /\ [](rule_in # NoRule => target_users = Audience(rule_in, users, teams))
    /\ [][users' = users /\ teams' = teams /\ user_states' = user_states]_vars

\* C9 witness: a team rule naming two known teams with different members and
\* an unknown team has resolved to the union of the two.
C9_Witness ==
    /\ rule_in = TeamVisibility({"team1", "team2", "team9"})
    /\ DOMAIN teams = {"team1", "team2"}
    /\ teams["team1"] = {"user1"}
    /\ teams["team2"] = {"user2"}
    /\ users = {"user1"}
    /\ target_users = {"user1", "user2"}

Sent(ids) == {[alert |-> 1, user |-> u, ok |-> TRUE] : u \in ids}

Unread(last) == [status |-> UNREAD, last_reminder_sent |-> last,
                 snoozed_until |-> None, read_at |-> None]

\* C10: in the scenario the sweep at T0 delivers to u1 and u2 and sets
\* last-reminder-sent = T0 for both; the sweep at T0+1h delivers to nobody and
\* changes no record; the sweep at T0+3h delivers to both and sets
\* last-reminder-sent = T0+3h; after u1's mark-read at T0+3h30m the sweep at
\* T0+5h delivers to u2 only.
C10_EndToEnd ==
    /\ (stage = "swept0" /\ now = 0) =>
          /\ deliveries = Sent({"u1", "u2"})
          /\ user_states = [p \in E2EUsers \X {1} |-> Unread(0)]
    /\ (stage = "swept1" /\ now = Hour) =>
          /\ deliveries = {}
          /\ user_states = [p \in E2EUsers \X {1} |-> Unread(0)]
    /\ (stage = "swept3" /\ now = 3 * Hour) =>
          /\ deliveries = Sent({"u1", "u2"})
          /\ user_states = [p \in E2EUsers \X {1} |-> Unread(3 * Hour)]
    /\ stage = "swept5" =>
          /\ deliveries = Sent({"u2"})
          /\ user_states[<<"u2", 1>>] = Unread(5 * Hour)
          /\ user_states[<<"u1", 1>>] =
                [status |-> READ, last_reminder_sent |-> 3 * Hour,
                 snoozed_until |-> None, read_at |-> 3 * Hour + 1]

\* C10 witness: the scenario has run to its last sweep.
C10_Witness == stage = "swept5" /\ now = 5 * Hour /\ swept

\* The record of the one pair of SpecLive, as get_state would return it.
LivePair == <<"user1", 1>>

LiveRec == IF LivePair \in DOMAIN user_states THEN user_states[LivePair] ELSE NewState

Later(a, b) == IF a >= b THEN a ELSE b

\* The first time at which the pair is neither throttled nor within a snooze.
Due ==
    Later(IF LiveRec.last_reminder_sent = None THEN 0
          ELSE LiveRec.last_reminder_sent + alerts[1].reminder_frequency,
          IF LiveRec.status = SNOOZED THEN LiveRec.snoozed_until + 1 ELSE 0)

\* C11: with sweeps and the clock weakly fair and a delivery type that has a
\* channel, a recipient who has not marked read and is due a reminder at time
\* d (no reminder yet, or the last one a reminder frequency before d, and any
\* snooze expired by d) is delivered to at d or later, unless they mark read
\* or a snooze moves the due time first.
C11_RemindersKeepComing ==
    \A d \in 0..MaxTime :
        (/\ deliver(alerts[1], "user1")
         /\ LiveRec.read_at = None
         /\ Due = d)
        ~> (\/ \E e \in deliveries : e.ok /\ PairOf(e) = LivePair /\ now >= d
            \/ LiveRec.read_at # None
            \/ LiveRec.status = SNOOZED /\ Due # d)

\* C11 witness: after a first reminder and a snooze that has expired, the
\* recipient is delivered to again.
C11_Witness ==
    \E e \in deliveries :
        /\ e.ok
        /\ PairOf(e) = LivePair
        /\ LiveRec.read_at = None
        /\ CheckOf(e).before.status = SNOOZED
        /\ CheckOf(e).before.last_reminder_sent # None

\* C12: sweeps are single-flight: no two request threads are inside
\* process_reminders at once, and no pair gets two successful deliveries less
\* than a reminder frequency apart.
C12_SingleFlight ==
    /\ Cardinality({p \in ThreadIds : threads[p].pc # "idle"}) <= 1
    /\ \A e1, e2 \in sent :
          (e1 # e2 /\ e1.user = e2.user /\ e1.alert = e2.alert /\ e1.at <= e2.at)
              => e2.at - e1.at >= alerts[e1.alert].reminder_frequency

\* C13: for an alert that has been archived at some time, no later sweep
\* looks up, checks or delivers for any of its pairs (so none of its records is
\* created or changed by a sweep), whatever registry calls came in between,
\* and its records stay in the store.
C13_ArchivedNeverSweptAgain ==
    [][\A a \in archived :
          /\ swept' =>
                /\ \A e \in checks' : e.alert # a
                /\ \A e \in deliveries' : e.alert # a
                /\ \A p \in DOMAIN user_states' :
                      p[2] = a => /\ p \in DOMAIN user_states
                                  /\ user_states'[p] = user_states[p]
          /\ \A p \in DOMAIN user_states : p[2] = a => p \in DOMAIN user_states'
      ]_vars

\* C14: every stored record has snoozed_until set exactly when its status is
\* snoozed, and read_at set exactly when its status is read.
C14_RecordConsistency ==
    \A p \in DOMAIN user_states :
        /\ user_states[p].snoozed_until # None <=> user_states[p].status = SNOOZED
        /\ user_states[p].read_at # None <=> user_states[p].status = READ

\* C15 as stated: for a pair whose check returns false the sweep invokes no
\* delivery and leaves every field of the record as it was before the sweep,
\* a pair with an expired snooze and a recent reminder included.
C15_IneligibleUntouched ==
    \A c \in checks :
        ~c.result => /\ StateOf(c) = c.before
                     /\ \A e \in deliveries : PairOf(e) # PairOf(c)

\* C15 amended: for a pair whose check returns false the sweep invokes no
\* delivery and leaves last-reminder-sent and read-at as they were; status and
\* snoozed-until are left too, unless the pair entered the sweep with an
\* expired snooze, and then status is unread and snoozed-until is unset.
C15_IneligibleUntouchedButExpiry ==
    \A c \in checks :
        ~c.result =>
            LET b == c.before
                lapsed == b.status = SNOOZED /\ b.snoozed_until # None
                              /\ now > b.snoozed_until
            IN  /\ \A e \in deliveries : PairOf(e) # PairOf(c)
                /\ StateOf(c).last_reminder_sent = b.last_reminder_sent
                /\ StateOf(c).read_at = b.read_at
                /\ StateOf(c).status = IF lapsed THEN UNREAD ELSE b.status
                /\ StateOf(c).snoozed_until = IF lapsed THEN None ELSE b.snoozed_until

\* C15 witness: a sweep finds a pair not eligible whose snooze has expired and
\* whose last reminder is less than the reminder frequency old.
C15_Witness ==
    \E c \in checks :
        /\ ~c.result
        /\ c.before.status = SNOOZED
        /\ c.before.snoozed_until # None
        /\ now > c.before.snoozed_until
        /\ Throttled(c.before.last_reminder_sent, alerts[c.alert].reminder_frequency, now)
        /\ StateOf(c).status = UNREAD

\* C16: a check of a record that is snoozed with snoozed-until unset ends in
\* an error and returns neither true nor false.
C16_BrokenRecordFailsLoudly ==
    \A c \in checks :
        (c.before.status = SNOOZED /\ c.before.snoozed_until = None)
            => c.result \notin BOOLEAN

\* C17: in a sweep at time now a snoozed pair becomes unread with
\* snoozed-until cleared exactly when now > snoozed-until; at now <=
\* snoozed-until it stays as it is and delivery is not invoked for it; and when
\* the snooze expires in the sweep and the last reminder is unset or at least
\* the reminder frequency old, delivery is invoked for the pair in that sweep.
C17_StrictLazyExpiry ==
    \A c \in checks :
        (c.before.status = SNOOZED /\ c.before.snoozed_until # None) =>
            IF now > c.before.snoozed_until
            THEN /\ StateOf(c).status = UNREAD
                 /\ StateOf(c).snoozed_until = None
                 /\ ~Throttled(c.before.last_reminder_sent,
                               alerts[c.alert].reminder_frequency, now)
                        => \E e \in deliveries : PairOf(e) = PairOf(c)
            ELSE /\ StateOf(c) = c.before
                 /\ ~c.result
                 /\ \A e \in deliveries : PairOf(e) # PairOf(c)

\* C17 witness: a sweep one tick after snoozed-until finds the snooze expired
\* and the last reminder old enough, and delivers.
C17_Witness ==
    \E c \in checks :
        /\ c.before.status = SNOOZED
        /\ c.before.last_reminder_sent # None
        /\ now = c.before.snoozed_until + 1
        /\ StateOf(c).snoozed_until = None
        /\ \E e \in deliveries : PairOf(e) = PairOf(c) /\ e.ok

\* What one handler makes of the record r it looked up at time t, when the
\* handler is no sweep: nothing, a snooze or a mark-read.
Handled(r, t) == {r, snooze_until_tomorrow(r, t), mark_read(r, t)}

\* C18: the first lookup of a pair creates the record unread with
\* last-reminder-sent, snoozed-until and read-at unset (the handler that looked
\* it up then works on that record); a lookup of a stored pair hands out the
\* stored record with every field as stored; and no step removes a pair from
\* the store.
C18_GetOrCreate ==
    [][/\ DOMAIN user_states \subseteq DOMAIN user_states'
       /\ \A c \in checks' :
             c.before = IF PairOf(c) \in DOMAIN user_states
                        THEN user_states[PairOf(c)] ELSE NewState
       /\ \A q \in DOMAIN user_states' :
             IF swept'
             THEN \/ \E c \in checks' : PairOf(c) = q
                  \/ q \in DOMAIN user_states /\ user_states'[q] = user_states[q]
             ELSE user_states'[q] \in
                      Handled(IF q \in DOMAIN user_states
                              THEN user_states[q] ELSE NewState, now)
      ]_vars

\* C18 witness: a sweep has looked up a stored record that had a reminder
\* and a snooze on it, and the record is as it was stored.
C18_Witness ==
    /\ swept
    /\ \E c \in checks :
          /\ c.before.last_reminder_sent # None
          /\ c.before.snoozed_until # None
          /\ StateOf(c) = c.before

\* last_reminder_sent of a pair, None while the pair has no record.
LastSent(p) ==
    IF p \in DOMAIN user_states THEN user_states[p].last_reminder_sent ELSE None

\* C19: for every pair, last-reminder-sent is set exactly when a delivery to
\* the pair has succeeded, and then it is the time of the latest successful
\* delivery; a delivery that just succeeded has its time recorded.
C19_DeliveryAndRecordInStep ==
    /\ \A p \in UserIds \X AlertIds :
          /\ LastSent(p) # None <=> p \in DOMAIN delivered_at
          /\ LastSent(p) # None => LastSent(p) = delivered_at[p]
    /\ \A e \in deliveries : e.ok => StateOf(e).last_reminder_sent = now

\* C19 witness: a pair that had a reminder before is delivered to again, at a
\* later time, and the record has the later time.
C19_Witness ==
    \E e \in deliveries :
        /\ e.ok
        /\ CheckOf(e).before.last_reminder_sent # None
        /\ CheckOf(e).before.last_reminder_sent < now
        /\ delivered_at[PairOf(e)] = now
        /\ LastSent(PairOf(e)) = now

\* The pairs a sweep of the present state goes through, and what the sweep
\* does to pair p when it handles that pair alone.
Work ==
    {p \in users \X DOMAIN alerts :
        /\ is_active(alerts[p[2]], now)
        /\ alerts[p[2]].reminders_enabled
        /\ p[1] \in Audience(alerts[p[2]].visibility_config, users, teams)}

Alone(p) ==
    ProcessUser([states |-> user_states, log |-> {}, checks |-> {}],
                p[2], alerts[p[2]], p[1], now)

\* C20: in a sweep in which a delivery fails, every pair of every swept alert
\* is still checked, every eligible pair is still attempted, and each pair's
\* attempt, its outcome and its record after the sweep are those the sweep
\* would have produced for the pair alone.
C20_FailuresAreIsolated ==
    [][(swept' /\ \E e \in deliveries' : ~e.ok) =>
          \A p \in Work :
              /\ {c \in checks' : PairOf(c) = p} = Alone(p).checks
              /\ {e \in deliveries' : PairOf(e) = p} = Alone(p).log
              /\ user_states'[p] = Alone(p).states[p]
      ]_vars

\* C20 witness: one sweep in which delivery fails for both users of one alert
\* and succeeds for a user of the other alert.
C20_Witness ==
    /\ swept
    /\ \E e1, e2, e3 \in deliveries :
          /\ ~e1.ok /\ ~e2.ok /\ e1.user # e2.user
          /\ e3.ok /\ StateOf(e3).last_reminder_sent = now

\* C21: with a recipient's mark-read or snooze running beside a sweep that is
\* at the same pair, the writes are serialized: the sweep makes no deliver
\* call for a pair whose mark-read has completed (the record is read when
\* deliver is called), and the record is one a serial order yields: a read
\* record has no reminder later than its read-at.
C21_ActionsSerializedWithSweep ==
    [][/\ (threads["t1"].pc = "deliver" /\ threads'["t1"].pc # "deliver")
             => user_states[AtPair("t1")].status # READ
       /\ \A q \in DOMAIN user_states' :
             (user_states'[q].status = READ /\ user_states'[q].last_reminder_sent # None)
                 => user_states'[q].last_reminder_sent <= user_states'[q].read_at
      ]_vars

\* C22: a handler that is no sweep (mark-read and snooze among them) leaves
\* last-reminder-sent of every pair as it was; the check of a record, snooze
\* expiry included, leaves last-reminder-sent and read-at as they were; and
\* last-reminder-sent changes only in a sweep, for a pair the sweep has
\* delivered to with success, to the time of that sweep.
C22_OnlyDeliveryWritesThrottleClock ==
    /\ [](\A q \in DOMAIN user_states :
            LET chk == should_receive_reminder(user_states[q], alerts[q[2]], now)
            IN  /\ chk.state.last_reminder_sent = user_states[q].last_reminder_sent
                /\ chk.state.read_at = user_states[q].read_at)
    /\ [][\A q \in DOMAIN user_states' :
            LET last == IF q \in DOMAIN user_states
                        THEN user_states[q].last_reminder_sent ELSE None
            IN  user_states'[q].last_reminder_sent # last
                    => /\ swept'
                       /\ \E e \in deliveries' : e.ok /\ PairOf(e) = q
                       /\ user_states'[q].last_reminder_sent = now
         ]_vars

\* C22 witness: a pair that had a reminder has just been snoozed at the
\* present time and then marked read, and the reminder's time is still there.
C22_Witness ==
    /\ ~swept
    /\ \E q \in DOMAIN user_states :
          /\ user_states[q].last_reminder_sent # None
          /\ user_states[q].snoozed_until = ReplaceHMS(now + Day)
          /\ user_states[q].status = READ
          /\ user_states[q].read_at = now
          /\ user_states[q].last_reminder_sent = delivered_at[q]

====
